---- MODULE Spec2Model ----
(***************************************************************************)
(* Model of plugins/modules/proxmox_vm_info.py: the disk/network slot      *)
(* value parsers (add_to_disks, add_to_nets), the configuration key        *)
(* classifier (get_vm_configs), the per-node listing (get_qemu_vms,        *)
(* get_lxc_vms) and the selection logic of main().                         *)
(*                                                                         *)
(* Python strings are TLA+ strings; a Python dict whose iteration order    *)
(* matters (a VM record, a configuration mapping) is a sequence of         *)
(* <<key, value>> pairs with distinct keys; a parsed disk/net record,      *)
(* whose order never matters, is a function from field name to string.     *)
(* A configuration value is tagged with its Python type: StrV or NumV.     *)
(***************************************************************************)
EXTENDS Integers, Sequences, FiniteSets, TLC

(***************************************************************************)
(* Bounds of the model.                                                    *)
(***************************************************************************)
MaxTokens == 2      \* comma-separated tokens in a generated slot value
MaxSuffixLen == 3   \* digits after the prefix of a generated configuration key
MaxSlots == 2       \* slot keys in a generated configuration mapping
MaxVms == 2         \* VMs in a generated node listing

(***************************************************************************)
(* Python string primitives.                                               *)
(***************************************************************************)
Digits == {"0", "1", "2", "3", "4", "5", "6", "7", "8", "9"}

CharAt(s, i) == SubSeq(s, i, i)

\* index of the first occurrence of the one-character string c in s, 0 if none
IndexOf(s, c) ==
    IF \E i \in 1..Len(s) : CharAt(s, i) = c
    THEN CHOOSE i \in 1..Len(s) :
           /\ CharAt(s, i) = c
           /\ \A j \in 1..(i - 1) : CharAt(s, j) # c
    ELSE 0

\* c in s
Contains(s, c) == IndexOf(s, c) # 0

\* s.split(c): every separator cuts, "" gives [""]
RECURSIVE Split(_, _)
Split(s, c) ==
    LET i == IndexOf(s, c)
    IN  IF i = 0 THEN <<s>>
        ELSE <<SubSeq(s, 1, i - 1)>> \o Split(SubSeq(s, i + 1, Len(s)), c)

\* d[k] = v on a record held as a function
Put(d, k, v) == [x \in (DOMAIN d) \cup {k} |-> IF x = k THEN v ELSE d[x]]

StrV(s) == [kind |-> "str", str |-> s]
NumV(n) == [kind |-> "num", num |-> n]

(***************************************************************************)
(* add_to_disks                                                            *)
(***************************************************************************)
\* the pattern without its digit: "^.+:.+/.+\..+"
DiskValueRegexAnyVolume(data) ==
    \E i \in 2..Len(data) :
      /\ CharAt(data, i) = ":"
      /\ \E j \in (i + 2)..Len(data) :
           /\ CharAt(data, j) = "/"
           /\ \E k \in (j + 2)..(Len(data) - 1) : CharAt(data, k) = "."

\* re.search("^.+:[0-9].+/.+\..+", data): some colon at position >= 2 is
\* followed by a digit, then at least one character, a slash, at least one
\* character, a dot and at least one more character.
DiskValueRegex(data) ==
    \E i \in 2..Len(data) :
      /\ CharAt(data, i) = ":"
      /\ i + 1 <= Len(data)
      /\ CharAt(data, i + 1) \in Digits
      /\ \E j \in (i + 3)..Len(data) :
           /\ CharAt(data, j) = "/"
           /\ \E k \in (j + 2)..(Len(data) - 1) : CharAt(data, k) = "."

\* one pass of the loop body of add_to_disks over one token
DiskToken(item, data) ==
    IF ~DiskValueRegex(data) /\ ~Contains(data, "=") THEN item
    ELSE IF DiskValueRegex(data)
         THEN Put(Put(item, "storage", Split(data, ":")[1]),
                  "path", Split(data, "/")[2])
         ELSE Put(item, Split(data, "=")[1], Split(data, "=")[2])

RECURSIVE DiskItem(_, _)
DiskItem(item, toks) ==
    IF toks = <<>> THEN item
    ELSE DiskItem(DiskToken(item, Head(toks)), Tail(toks))

\* self.disks: the instance attribute once get_vm_configs has assigned it,
\* the class attribute (shared list) before
SelfDisks(o) == IF o.hasDisks THEN o.disks ELSE o.clsDisks
SelfNets(o) == IF o.hasNets THEN o.nets ELSE o.clsNets

\* self.disks.append(item): mutates whichever list self.disks names
DisksAppend(o, item) ==
    IF o.hasDisks THEN [o EXCEPT !.disks = Append(@, item)]
    ELSE [o EXCEPT !.clsDisks = Append(@, item)]

NetsAppend(o, item) ==
    IF o.hasNets THEN [o EXCEPT !.nets = Append(@, item)]
    ELSE [o EXCEPT !.clsNets = Append(@, item)]

\* an add_to_disks that appends the item before parsing the value
DisksOnErrorAppended(o, name) == DisksAppend(o, [name |-> name])

\* what the except clause of add_to_disks leaves of the object
DisksOnError(o, name) == o

\* value.split(',') raises AttributeError on a value that is not a string;
\* no other statement of the try block can raise
AddToDisks(o, name, value) ==
    IF value.kind # "str"
    THEN [obj |-> DisksOnError(o, name), ret |-> FALSE]
    ELSE [obj |-> DisksAppend(o, DiskItem([name |-> name], Split(value.str, ","))),
          ret |-> TRUE]

(***************************************************************************)
(* add_to_nets                                                             *)
(***************************************************************************)
NetModels == {"e1000", "virtio", "rtl8139", "vmxnet3"}

\* k, v = data.split('=') raises ValueError unless there are exactly two parts
NetTokenRaises(data) == Contains(data, "=") /\ Len(Split(data, "=")) # 2

\* a loop body that never recognises a NIC model
NetTokenNoModel(item, data) ==
    IF ~Contains(data, "=") THEN item
    ELSE Put(item, Split(data, "=")[1], Split(data, "=")[2])

NetToken(item, data) ==
    IF ~Contains(data, "=") THEN item
    ELSE LET k == Split(data, "=")[1]
             v == Split(data, "=")[2]
         IN  IF k \in NetModels
             THEN Put(Put(item, "model", k), "mac", v)
             ELSE Put(item, k, v)

RECURSIVE NetItem(_, _)
NetItem(item, toks) ==
    IF toks = <<>> THEN item
    ELSE NetItem(NetToken(item, Head(toks)), Tail(toks))

NetsOnError(o, name) == o

AddToNets(o, name, value) ==
    IF value.kind # "str"
    THEN [obj |-> NetsOnError(o, name), ret |-> FALSE]
    ELSE LET toks == Split(value.str, ",")
         IN  IF \E i \in 1..Len(toks) : NetTokenRaises(toks[i])
             THEN [obj |-> NetsOnError(o, name), ret |-> FALSE]
             ELSE [obj |-> NetsAppend(o, NetItem([name |-> name], toks)),
                   ret |-> TRUE]

\* a ProxmoxVmInfoAnsible object right after construction: no instance
\* attribute yet, the class attributes disks = [] and nets = []
NewObject == [clsDisks |-> <<>>, clsNets |-> <<>>,
              hasDisks |-> FALSE, disks |-> <<>>,
              hasNets |-> FALSE, nets |-> <<>>]

(***************************************************************************)
(* Python dicts with insertion order: sequences of <<key, value>> pairs.   *)
(***************************************************************************)
NoneV == [kind |-> "none"]
ListV(l) == [kind |-> "list", list |-> l]

\* truth value of a parameter: None, 0 and "" are false
Truthy(v) ==
    \/ v.kind = "num" /\ v.num # 0
    \/ v.kind = "str" /\ v.str # ""

DictKeys(d) == [i \in 1..Len(d) |-> d[i][1]]
DictHas(d, k) == \E i \in 1..Len(d) : d[i][1] = k
DictGet(d, k) == d[CHOOSE i \in 1..Len(d) : d[i][1] = k][2]

\* d[k] = v: an existing key keeps its position, a new key goes last
DictSet(d, k, v) ==
    IF DictHas(d, k)
    THEN [i \in 1..Len(d) |-> IF d[i][1] = k THEN <<k, v>> ELSE d[i]]
    ELSE Append(d, <<k, v>>)

\* del d[k]
DictDel(d, k) == SelectSeq(d, LAMBDA e : e[1] # k)

\* d.update(other)
RECURSIVE DictUpdate(_, _)
DictUpdate(d, other) ==
    IF other = <<>> THEN d
    ELSE DictUpdate(DictSet(d, Head(other)[1], Head(other)[2]), Tail(other))

(***************************************************************************)
(* get_vm_configs: the key classifier                                      *)
(***************************************************************************)
StartsWith(s, p) == Len(s) >= Len(p) /\ SubSeq(s, 1, Len(p)) = p
After(s, p) == SubSeq(s, Len(p) + 1, Len(s))
AllDigits(s) == \A i \in 1..Len(s) : CharAt(s, i) \in Digits
D0to3 == {"0", "1", "2", "3"}
D0to4 == {"0", "1", "2", "3", "4"}
D0to5 == {"0", "1", "2", "3", "4", "5"}
D1to2 == {"1", "2"}
D1to9 == Digits \ {"0"}

\* (30|[12][0-9]|[0-9])
ScsiSuffix(r) ==
    \/ r = "30"
    \/ Len(r) = 2 /\ CharAt(r, 1) \in D1to2 /\ CharAt(r, 2) \in Digits
    \/ Len(r) = 1 /\ r \in Digits

\* (1[0-5]|[0-9])
VirtioSuffix(r) ==
    \/ Len(r) = 2 /\ CharAt(r, 1) = "1" /\ CharAt(r, 2) \in D0to5
    \/ Len(r) = 1 /\ r \in Digits

\* (25[0-5]|[12][0-4][0-9]|[1-9]?[0-9])
UnusedSuffix(r) ==
    \/ Len(r) = 3 /\ SubSeq(r, 1, 2) = "25" /\ CharAt(r, 3) \in D0to5
    \/ Len(r) = 3 /\ CharAt(r, 1) \in D1to2 /\ CharAt(r, 2) \in D0to4
                  /\ CharAt(r, 3) \in Digits
    \/ Len(r) = 2 /\ CharAt(r, 1) \in D1to9 /\ CharAt(r, 2) \in Digits
    \/ Len(r) = 1 /\ r \in Digits

\* re.search(disk_regex, key)
DiskKeyRegex(key) ==
    \/ StartsWith(key, "ide") /\ After(key, "ide") \in D0to3
    \/ StartsWith(key, "scsi") /\ ScsiSuffix(After(key, "scsi"))
    \/ StartsWith(key, "virtio") /\ VirtioSuffix(After(key, "virtio"))
    \/ StartsWith(key, "sata") /\ After(key, "sata") \in D0to5
    \/ key = "efidisk0"
    \/ key = "tpmstate0"
    \/ StartsWith(key, "unused") /\ UnusedSuffix(After(key, "unused"))

\* (0[1-9]?|[1-9]?[0-9]*)
NetSuffix(r) ==
    \/ r = "0"
    \/ Len(r) = 2 /\ CharAt(r, 1) = "0" /\ CharAt(r, 2) \in D1to9
    \/ AllDigits(r)
    \/ Len(r) >= 1 /\ CharAt(r, 1) \in D1to9 /\ AllDigits(SubSeq(r, 2, Len(r)))

\* re.search(net_regex, key)
NetKeyRegex(key) == StartsWith(key, "net") /\ NetSuffix(After(key, "net"))

\* get_vm_configs without its "self.disks = []"
ResetDisksMissing(o) == o

\* self.disks = [] / self.nets = []: binds a fresh list to the instance
ResetDisks(o) == [o EXCEPT !.hasDisks = TRUE, !.disks = <<>>]
ResetNets(o) == [o EXCEPT !.hasNets = TRUE, !.nets = <<>>]

\* one pass of the loop "for key in list(vm)"
ConfigKey(st, key) ==
    LET val == DictGet(st.vm, key)
    IN  IF DiskKeyRegex(key)
        THEN [st EXCEPT !.obj = AddToDisks(st.obj, key, val).obj,
                        !.vm = DictDel(st.vm, key),
                        !.dsw = TRUE]
        ELSE IF NetKeyRegex(key)
        THEN [st EXCEPT !.obj = AddToNets(st.obj, key, val).obj,
                        !.vm = DictDel(st.vm, key),
                        !.nsw = TRUE]
        ELSE IF key = "cpu" /\ val.kind = "num"
        THEN [st EXCEPT !.vm = DictSet(st.vm, "cpu", StrV("default"))]
        ELSE st

RECURSIVE ConfigLoop(_, _)
ConfigLoop(st, keys) ==
    IF keys = <<>> THEN st
    ELSE ConfigLoop(ConfigKey(st, Head(keys)), Tail(keys))

\* if dsw: vm['disks'] = self.disks; self.disks = []
AttachDisks(st) ==
    IF st.dsw
    THEN [st EXCEPT !.vm = DictSet(st.vm, "disks", ListV(SelfDisks(st.obj))),
                    !.obj = ResetDisks(st.obj)]
    ELSE st

\* if nsw: vm['nets'] = self.nets; self.nets = []
AttachNets(st) ==
    IF st.nsw
    THEN [st EXCEPT !.vm = DictSet(st.vm, "nets", ListV(SelfNets(st.obj))),
                    !.obj = ResetNets(st.obj)]
    ELSE st

\* get_vm_configs(node, vm) once the configuration vmcnf has been fetched;
\* gives the object afterwards and the returned vm
GetVmConfigs(o, nodeName, vm, vmcnf) ==
    LET vm1 == DictSet(DictUpdate(vm, vmcnf), "node", nodeName)
        st0 == [obj |-> o, vm |-> vm1, dsw |-> FALSE, nsw |-> FALSE]
        st1 == ConfigLoop(st0, DictKeys(vm1))
        st2 == AttachNets(AttachDisks(st1))
    IN  [obj |-> st2.obj, vm |-> st2.vm]

(***************************************************************************)
(* int(...) and str(...) on decimal numerals                               *)
(***************************************************************************)
DigitSeq == <<"0", "1", "2", "3", "4", "5", "6", "7", "8", "9">>
DigitVal(c) == (CHOOSE i \in 1..Len(DigitSeq) : DigitSeq[i] = c) - 1

RECURSIVE ToInt(_)
ToInt(s) ==
    IF Len(s) = 0 THEN 0
    ELSE ToInt(SubSeq(s, 1, Len(s) - 1)) * Len(DigitSeq) + DigitVal(CharAt(s, Len(s)))

RECURSIVE ToStr(_)
ToStr(n) ==
    IF n < Len(DigitSeq) THEN DigitSeq[n + 1]
    ELSE ToStr(n \div Len(DigitSeq)) \o DigitSeq[(n % Len(DigitSeq)) + 1]

(***************************************************************************)
(* The state: the cluster behind the API, the module parameters, and the   *)
(* locals of main() and of the get_qemu_vms call in progress.              *)
(***************************************************************************)
VARIABLES
    cluster,    \* what the Proxmox API answers: nodes, their VMs and containers
    params,     \* module.params: node, type, vmid, name
    pc,         \* position in main()
    obj,        \* the ProxmoxVmInfoAnsible object (and its class attributes)
    node,       \* main's local node
    vmid,       \* main's local vmid
    vms,        \* main's local vms
    frame,      \* locals of the running get_qemu_vms call
    nodesLeft,  \* rest of the iteration "for node in proxmox_api.nodes.get()"
    result,     \* how the invocation ended: exit_json or fail_json
    fnIn,       \* arguments of a directly called method
    fnOut       \* its outcome

vars == <<cluster, params, pc, obj, node, vmid, vms, frame, nodesLeft, result,
          fnIn, fnOut>>

mainVars == <<cluster, params, pc, obj, node, vmid, vms, frame, nodesLeft, result>>

NoFrame == [node |-> NoneV, vmid |-> NoneV, vmlist |-> <<>>, idx |-> 0,
            vms |-> <<>>, ret |-> "none"]
Running == [status |-> "running", vms |-> <<>>, msg |-> ""]
NoCall == [done |-> FALSE]

(***************************************************************************)
(* The API client (proxmoxer) as seen by the module.                       *)
(***************************************************************************)
\* proxmox_api.nodes.get()
ApiNodes(c) == c.nodes

\* proxmox_api.nodes(node).qemu().get(): the VMs of the node, vmid as the
\* API sends it (a numeral)
ApiQemu(c, n) ==
    LET onNode == SelectSeq(c.qemu, LAMBDA v : v.node = n)
    IN  [i \in 1..Len(onNode) |->
           <<<<"vmid", StrV(ToStr(onNode[i].vmid))>>, <<"name", StrV(onNode[i].name)>>>>]

\* proxmox_api.nodes(node).qemu(vmid).config.get()
ApiConfig(c, n, id) ==
    LET i == CHOOSE i \in 1..Len(c.qemu) : c.qemu[i].node = n /\ c.qemu[i].vmid = id
    IN  c.qemu[i].config

\* proxmox_api.nodes(node).lxc().get()
ApiLxc(c, n) ==
    LET onNode == SelectSeq(c.lxc, LAMBDA v : v.node = n)
    IN  [i \in 1..Len(onNode) |->
           <<<<"vmid", StrV(ToStr(onNode[i].vmid))>>, <<"name", StrV(onNode[i].name)>>>>]

\* ProxmoxAnsible.get_node(node): None unless the cluster has the node
GetNode(c, n) ==
    IF \E i \in 1..Len(c.nodes) : c.nodes[i] = n THEN StrV(n) ELSE NoneV

\* ProxmoxAnsible.get_vmid(name, ignore_missing=False): the vmids of the
\* cluster's VMs and containers of that name; exactly one is the answer
VmidsNamed(c, name) ==
    {c.qemu[i].vmid : i \in {j \in 1..Len(c.qemu) : c.qemu[j].name = name}}
    \cup {c.lxc[i].vmid : i \in {j \in 1..Len(c.lxc) : c.lxc[j].name = name}}

(***************************************************************************)
(* fail_json / exit_json end the invocation.                               *)
(***************************************************************************)
FailJson(msg) ==
    /\ result' = [status |-> "fail", vms |-> <<>>, msg |-> msg]
    /\ pc' = "done"

\* "if vms is not None or vmid is None": a list is never None
FinishSucceedsAlways(v, id) == Len(v) >= 0 \/ id.kind = "none"

\* "if vms or vmid is None": exit_json, else fail_json
FinishSucceeds(v, id) == v # <<>> \/ id.kind = "none"

\* [vm for vm in vms if vm["vmid"] == vmid], the whole list when vmid is None
FilterVmid(v, id) ==
    IF id.kind = "none" THEN v
    ELSE SelectSeq(v, LAMBDA vm : DictGet(vm, "vmid") = id)

(***************************************************************************)
(* main()                                                                  *)
(***************************************************************************)
\* if node and (proxmox.get_node(node) is None): fail_json
CheckNode ==
    /\ pc = "start"
    /\ IF Truthy(params.node) /\ GetNode(cluster, params.node.str).kind = "none"
       THEN /\ FailJson("Node doesn't exist in PVE cluster")
            /\ UNCHANGED <<vmid>>
       ELSE /\ pc' = "resolve"
            /\ UNCHANGED <<result, vmid>>
    /\ UNCHANGED <<cluster, params, obj, node, vms, frame, nodesLeft, fnIn, fnOut>>

\* if not vmid and name: vmid = int(proxmox.get_vmid(name, ignore_missing=False))
ResolveName ==
    /\ pc = "resolve"
    /\ IF ~Truthy(vmid) /\ Truthy(params.name)
       THEN LET found == VmidsNamed(cluster, params.name.str)
            IN  IF Cardinality(found) = 1
                THEN /\ vmid' = NumV(CHOOSE x \in found : TRUE)
                     /\ pc' = "dispatch"
                     /\ UNCHANGED result
                ELSE /\ FailJson("No VM with name found, or multiple")
                     /\ UNCHANGED vmid
       ELSE /\ pc' = "dispatch"
            /\ UNCHANGED <<vmid, result>>
    /\ UNCHANGED <<cluster, params, obj, node, vms, frame, nodesLeft, fnIn, fnOut>>

\* the branch of "if type == ..." taken when main reaches it
Branch(type, n, id, name) ==
    IF type = "lxc" THEN "lxc"
    ELSE IF type = "qemu"
         THEN IF Truthy(n) THEN "qemu_node"
              ELSE IF Truthy(id) \/ Truthy(name) THEN "qemu_vmid"
              ELSE "qemu_all"
         ELSE "none"

\* vms = []; if type == "lxc": ... elif type == "qemu": ...
Dispatch ==
    /\ pc = "dispatch"
    /\ LET b == Branch(params.type, node, vmid, params.name)
       IN  /\ pc' = CASE b = "lxc" -> "lxc"
                      [] b = "qemu_node" -> "qemu_list"
                      [] b = "qemu_vmid" -> "vm_node"
                      [] b = "qemu_all" -> "nodes_loop"
                      [] OTHER -> "finish"
           /\ frame' = IF b = "qemu_node"
                       THEN [NoFrame EXCEPT !.node = node, !.ret = "single"]
                       ELSE frame
           /\ nodesLeft' = IF b = "qemu_all" THEN ApiNodes(cluster) ELSE nodesLeft
    /\ vms' = <<>>
    /\ UNCHANGED <<cluster, params, obj, node, vmid, result, fnIn, fnOut>>

\* int(vm["vmid"]) on every container of a listing
LxcTagged(list) ==
    [i \in 1..Len(list) |->
       DictSet(list[i], "vmid", NumV(ToInt(DictGet(list[i], "vmid").str)))]

\* vms = proxmox.get_lxc_vms(node, vmid=vmid).  With node None the request
\* names no node; the call then either raises (ApiFails) or lists nothing.
GetLxcVms ==
    /\ pc = "lxc"
    /\ LET list == IF node.kind = "str" THEN ApiLxc(cluster, node.str) ELSE <<>>
       IN  vms' = FilterVmid(LxcTagged(list), vmid)
    /\ pc' = "finish"
    /\ UNCHANGED <<cluster, params, obj, node, vmid, frame, nodesLeft, result,
                   fnIn, fnOut>>

\* vm_in_node(vmid, node)
VmInNode(c, id, n) ==
    \E i \in 1..Len(ApiQemu(c, n)) :
       ToInt(DictGet(ApiQemu(c, n)[i], "vmid").str) = id

\* get_vm_node(vmid): the first node that has the VM, None when the loop ends
GetVmNodeOf(c, id) ==
    LET ns == ApiNodes(c)
        hits == {i \in 1..Len(ns) : id.kind = "num" /\ VmInNode(c, id.num, ns[i])}
    IN  IF hits = {} THEN NoneV
        ELSE StrV(ns[CHOOSE i \in hits : \A j \in hits : i <= j])

\* get_qemu_vms(node=proxmox.get_vm_node(vmid), vmid=vmid): the arguments
GetVmNode ==
    /\ pc = "vm_node"
    /\ frame' = [NoFrame EXCEPT !.node = GetVmNodeOf(cluster, vmid),
                                !.vmid = vmid, !.ret = "single"]
    /\ pc' = "qemu_list"
    /\ UNCHANGED <<cluster, params, obj, node, vmid, vms, nodesLeft, result,
                   fnIn, fnOut>>

\* for node in proxmox.proxmox_api.nodes.get(): node = node['node'];
\* nodevms = proxmox.get_qemu_vms(node=node)
NodesLoop ==
    /\ pc = "nodes_loop"
    /\ IF nodesLeft = <<>>
       THEN /\ pc' = "finish"
            /\ UNCHANGED <<node, frame, nodesLeft>>
       ELSE /\ node' = StrV(Head(nodesLeft))
            /\ frame' = [NoFrame EXCEPT !.node = StrV(Head(nodesLeft)), !.ret = "loop"]
            /\ nodesLeft' = Tail(nodesLeft)
            /\ pc' = "qemu_list"
    /\ UNCHANGED <<cluster, params, obj, vmid, vms, result, fnIn, fnOut>>

(***************************************************************************)
(* get_qemu_vms                                                            *)
(***************************************************************************)
\* vms = []; vmlist = self.proxmox_api.nodes(node).qemu().get().  With node
\* None the call either raises (ApiFails) or lists nothing.
QemuList ==
    /\ pc = "qemu_list"
    /\ frame' = [frame EXCEPT
                   !.vmlist = IF frame.node.kind = "str"
                              THEN ApiQemu(cluster, frame.node.str) ELSE <<>>,
                   !.idx = 1, !.vms = <<>>]
    /\ pc' = "qemu_loop"
    /\ UNCHANGED <<cluster, params, obj, node, vmid, vms, nodesLeft, result,
                   fnIn, fnOut>>

\* vm["vmid"] = int(vm["vmid"]); vm["type"] = "qemu"
QemuTagged(vm) ==
    DictSet(DictSet(vm, "vmid", NumV(ToInt(DictGet(vm, "vmid").str))),
            "type", StrV("qemu"))

\* one pass of "for vm in vmlist": vms.append(self.get_vm_configs(node, vm))
QemuConfig ==
    /\ pc = "qemu_loop"
    /\ frame.idx <= Len(frame.vmlist)
    /\ LET vm == QemuTagged(frame.vmlist[frame.idx])
           cnf == ApiConfig(cluster, frame.node.str, DictGet(vm, "vmid").num)
           r == GetVmConfigs(obj, frame.node, vm, cnf)
       IN  /\ obj' = r.obj
           /\ frame' = [frame EXCEPT !.vms = Append(@, r.vm), !.idx = @ + 1]
    /\ UNCHANGED <<cluster, params, pc, node, vmid, vms, nodesLeft, result,
                   fnIn, fnOut>>

\* the return of get_qemu_vms and what main does with the value:
\* "vms = ..." or "if nodevms: vms = vms + nodevms"
QemuReturn ==
    /\ pc = "qemu_loop"
    /\ frame.idx > Len(frame.vmlist)
    /\ LET ret == FilterVmid(frame.vms, frame.vmid)
       IN  IF frame.ret = "single"
           THEN vms' = ret /\ pc' = "finish"
           ELSE vms' = vms \o ret /\ pc' = "nodes_loop"
    /\ frame' = NoFrame
    /\ UNCHANGED <<cluster, params, obj, node, vmid, nodesLeft, result, fnIn, fnOut>>

\* if vms or vmid is None: exit_json(proxmox_vms=vms) else: fail_json
Finish ==
    /\ pc = "finish"
    /\ IF FinishSucceeds(vms, vmid)
       THEN /\ result' = [status |-> "exit", vms |-> vms, msg |-> ""]
            /\ pc' = "done"
       ELSE FailJson("VM with vmid doesn't exist on node")
    /\ UNCHANGED <<cluster, params, obj, node, vmid, vms, frame, nodesLeft,
                   fnIn, fnOut>>

\* the positions whose next statement calls the API
ApiCallAt == {"start", "resolve", "lxc", "vm_node", "nodes_loop", "qemu_list", "qemu_loop"}

\* an API call raises: every except clause ends in fail_json
ApiFails ==
    /\ pc \in ApiCallAt
    /\ pc = "start" => Truthy(params.node)
    /\ pc = "resolve" => ~Truthy(vmid) /\ Truthy(params.name)
    /\ pc = "nodes_loop" => nodesLeft # <<>>
    /\ pc = "qemu_loop" => frame.idx <= Len(frame.vmlist)
    /\ FailJson("Failed to retrieve information")
    /\ UNCHANGED <<cluster, params, obj, node, vmid, vms, frame, nodesLeft,
                   fnIn, fnOut>>

Next ==
    \/ CheckNode
    \/ ResolveName
    \/ Dispatch
    \/ GetLxcVms
    \/ GetVmNode
    \/ NodesLoop
    \/ QemuList
    \/ QemuConfig
    \/ QemuReturn
    \/ Finish
    \/ ApiFails

(***************************************************************************)
(* Clusters and parameters the invocation starts from.                     *)
(***************************************************************************)
NodeNames == <<"node01", "node02">>

\* configurations as the API returns them
ConfigPool ==
    << <<<<"cores", NumV(2)>>, <<"cpu", NumV(1)>>,
         <<"scsi0", StrV("local:100/vm-100-disk-0.raw,size=30G")>>,
         <<"net0", StrV("virtio=28:08:FE:80:DE:A3,bridge=br0")>>>>,
       <<<<"cpu", StrV("host")>>, <<"ide2", StrV("none,media=cdrom")>>,
         <<"net1", StrV("e1000=AA=BB")>>>>,
       <<<<"memory", NumV(512)>>>> >>

\* the VM ids a cluster may hold; names repeat so that a name can be ambiguous
QemuIds == 100..(99 + MaxVms + 1)
VmName(id) == IF id % 2 = 0 THEN "a" ELSE "b"
VmConfig(id) == ConfigPool[(id % Len(ConfigPool)) + 1]
Places == {NodeNames[i] : i \in 1..Len(NodeNames)} \cup {"absent"}

\* the cluster in which VM id sits at place[id] and the container at lxcPlace
ClusterOf(place, lxcPlace) ==
    LET ids == SelectSeq([i \in 1..Cardinality(QemuIds) |-> 99 + i],
                         LAMBDA id : place[id] # "absent")
    IN  [nodes |-> NodeNames,
         qemu |-> [i \in 1..Len(ids) |->
                     [vmid |-> ids[i], name |-> VmName(ids[i]),
                      node |-> place[ids[i]], config |-> VmConfig(ids[i])]],
         lxc |-> IF lxcPlace = "absent" THEN <<>>
                 ELSE <<[vmid |-> 200, name |-> "c", node |-> lxcPlace]>>]

Clusters ==
    {ClusterOf(place, l) : place \in [QemuIds -> Places], l \in {"node01", "absent"}}

\* mutually_exclusive=[('node', 'vmid', 'vmname')]: node and vmid never both
ParamSets ==
    {p \in [node : {NoneV, StrV("node01"), StrV("node02"), StrV("node09")},
            type : {"all", "qemu", "lxc"},
            vmid : {NoneV, NumV(0), NumV(100), NumV(101), NumV(999)},
            name : {NoneV, StrV("a"), StrV("b"), StrV("c"), StrV("zz")}] :
       ~(p.node.kind # "none" /\ p.vmid.kind # "none")}

MainInit ==
    /\ pc = "start"
    /\ obj = NewObject
    /\ node = params.node
    /\ vmid = params.vmid
    /\ vms = <<>>
    /\ frame = NoFrame
    /\ nodesLeft = <<>>
    /\ result = Running
    /\ fnIn = NoCall
    /\ fnOut = NoCall

Init ==
    /\ cluster \in Clusters
    /\ params \in ParamSets
    /\ MainInit

Spec == Init /\ [][Next]_vars

(***************************************************************************)
(* A node listing of generated VMs run through get_qemu_vms: every         *)
(* configuration of at most MaxSlots slot keys over SlotValues, for one to *)
(* MaxVms VMs of node01, listed with type=qemu and node=node01.            *)
(***************************************************************************)
SlotKeys == <<"ide2", "scsi0", "net0">>

\* the values a slot may hold: for ide2 a bare token or a number, for scsi0
\* a volume or a token that names the record, for net0 a NIC or a token
\* that does not split in two
SlotValues(k) ==
    CASE k = "ide2" -> {StrV("none,media=cdrom"), NumV(0)}
      [] k = "scsi0" -> {StrV("local:102/vm-102-disk-0.raw,size=10G"), StrV("name=ide2")}
      [] OTHER -> {StrV("virtio=AA,bridge=br0"), StrV("virtio=AA=BB")}

\* the configuration holding the slots S with the values f, in SlotKeys order
CfgOf(S, f) ==
    LET idx == SelectSeq([i \in 1..Len(SlotKeys) |-> i], LAMBDA i : i \in S)
    IN  <<<<"memory", NumV(512)>>>>
        \o [j \in 1..Len(idx) |-> <<SlotKeys[idx[j]], f[idx[j]]>>]

Cfgs ==
    UNION {{CfgOf(S, f) :
              f \in {g \in [S -> UNION {SlotValues(SlotKeys[i]) : i \in S}] :
                       \A i \in S : g[i] \in SlotValues(SlotKeys[i])}} :
             S \in {T \in SUBSET (1..Len(SlotKeys)) : Cardinality(T) <= MaxSlots}}

ListingOf(cfgs) ==
    [nodes |-> NodeNames,
     qemu |-> [i \in 1..Len(cfgs) |->
                 [vmid |-> 99 + i, name |-> "vm", node |-> "node01",
                  config |-> cfgs[i]]],
     lxc |-> <<>>]

InitCfg ==
    /\ cluster \in {ListingOf(cfgs) : cfgs \in UNION {[1..n -> Cfgs] : n \in 1..MaxVms}}
    /\ params = [node |-> StrV("node01"), type |-> "qemu", vmid |-> NoneV,
                 name |-> NoneV]
    /\ MainInit

NextCfg ==
    \/ CheckNode
    \/ ResolveName
    \/ Dispatch
    \/ QemuList
    \/ QemuConfig
    \/ QemuReturn
    \/ Finish
    \/ ApiFails

SpecCfg == InitCfg /\ [][NextCfg]_vars

(***************************************************************************)
(* Direct calls of add_to_disks, add_to_nets and get_vm_configs on a new   *)
(* object, over generated arguments.                                       *)
(***************************************************************************)
MainIdle ==
    /\ cluster = ListingOf(<<>>)
    /\ params = [node |-> NoneV, type |-> "all", vmid |-> NoneV, name |-> NoneV]
    /\ pc = "idle"
    /\ obj = NewObject
    /\ node = NoneV
    /\ vmid = NoneV
    /\ vms = <<>>
    /\ frame = NoFrame
    /\ nodesLeft = <<>>
    /\ result = Running

TokenPool == {"none", "media=cdrom", "size=30G", "local:iso/install.iso",
              "local-lvm:vm-100-disk-0", "local:102/vm-102-disk-0.raw",
              "a:1/c.d", "x:a:1b/c/d.e=f", "a=b=c", "name=x", "", "virtio=AA",
              "storage=s"}

\* the values of one to n comma-separated tokens
RECURSIVE TokenStrings(_)
TokenStrings(n) ==
    IF n <= 1 THEN TokenPool
    ELSE TokenStrings(n - 1)
         \cup {s \o "," \o t : s \in TokenStrings(n - 1), t \in TokenPool}

NetExample == "virtio=28:08:FE:80:DE:A3,bridge=br0,tag=100,firewall=0"

SlotValueInputs ==
    {StrV(s) : s \in TokenStrings(MaxTokens) \cup {NetExample}} \cup {NumV(0)}

InitDisks ==
    /\ fnIn \in [name : {"ide2", "ide3", "scsi0"}, value : SlotValueInputs]
    /\ fnOut = NoCall
    /\ MainIdle

CallAddToDisks ==
    /\ ~fnOut.done
    /\ fnOut' = [done |-> TRUE, r |-> AddToDisks(NewObject, fnIn.name, fnIn.value)]
    /\ UNCHANGED <<fnIn, mainVars>>

SpecDisks == InitDisks /\ [][CallAddToDisks]_vars

InitNets ==
    /\ fnIn \in [name : {"net0", "net1"}, value : SlotValueInputs]
    /\ fnOut = NoCall
    /\ MainIdle

CallAddToNets ==
    /\ ~fnOut.done
    /\ fnOut' = [done |-> TRUE, r |-> AddToNets(NewObject, fnIn.name, fnIn.value)]
    /\ UNCHANGED <<fnIn, mainVars>>

SpecNets == InitNets /\ [][CallAddToNets]_vars

\* the decimal strings of at most n digits, the empty one included
RECURSIVE DigitStrings(_)
DigitStrings(n) ==
    IF n = 0 THEN {""}
    ELSE DigitStrings(n - 1) \cup {s \o d : s \in DigitStrings(n - 1), d \in Digits}

KeyPrefixes == {"ide", "scsi", "virtio", "sata", "efidisk", "tpmstate", "unused",
                "net", "cpu", "netin"}

KeyInputs == {p \o s : p \in KeyPrefixes, s \in DigitStrings(MaxSuffixLen)}

InitKeys ==
    /\ fnIn \in [key : KeyInputs, value : {StrV("none"), NumV(1)}]
    /\ fnOut = NoCall
    /\ MainIdle

\* the VM as get_qemu_vms hands it to get_vm_configs
ListedVm == <<<<"vmid", NumV(100)>>, <<"name", StrV("vm")>>, <<"type", StrV("qemu")>>>>

CallGetVmConfigs ==
    /\ ~fnOut.done
    /\ fnOut' = [done |-> TRUE,
                 r |-> GetVmConfigs(NewObject, StrV("node01"), ListedVm,
                                    <<<<fnIn.key, fnIn.value>>>>)]
    /\ UNCHANGED <<fnIn, mainVars>>

SpecKeys == InitKeys /\ [][CallGetVmConfigs]_vars

(***************************************************************************)
(* Vocabulary of the properties.                                           *)
(***************************************************************************)
\* vm[k] when it is a list, [] when the VM has no such field
ListField(vm, k) == IF DictHas(vm, k) THEN DictGet(vm, k).list ELSE <<>>

CountChar(s, c) == Cardinality({i \in 1..Len(s) : CharAt(s, i) = c})
BeforeFirst(s, c) == SubSeq(s, 1, IndexOf(s, c) - 1)
AfterFirst(s, c) == SubSeq(s, IndexOf(s, c) + 1, Len(s))
\* the text between the first c and the next c (or the end)
Second(s, c) ==
    IF Contains(AfterFirst(s, c), c) THEN BeforeFirst(AfterFirst(s, c), c)
    ELSE AfterFirst(s, c)

\* the i-th VM of node01's listing processed alone by a new object
AloneVm(i, cfg) ==
    GetVmConfigs(NewObject, StrV("node01"),
                 QemuTagged(ApiQemu(cluster, "node01")[i]), cfg).vm

\* the slot keys the specification names
ClaimedDiskKeys ==
    {"ide" \o ToStr(n) : n \in 0..3} \cup {"scsi" \o ToStr(n) : n \in 0..30}
    \cup {"virtio" \o ToStr(n) : n \in 0..15} \cup {"sata" \o ToStr(n) : n \in 0..5}
    \cup {"efidisk0", "tpmstate0"} \cup {"unused" \o ToStr(n) : n \in 0..255}

IsNetKeyWithDigits(key, lens) ==
    /\ StartsWith(key, "net")
    /\ AllDigits(After(key, "net"))
    /\ Len(After(key, "net")) \in lens

\* the VMs get_qemu_vms has built so far, or has returned
BuiltVms == IF pc = "qemu_loop" THEN frame.vms ELSE IF pc = "finish" THEN vms ELSE result.vms

(***************************************************************************)
(* C1 (SpecCfg): the disks and nets lists of every VM built by             *)
(* get_qemu_vms hold exactly the records the VM's own configuration gives  *)
(* when processed alone by a new object, never more records than the VM    *)
(* has slot keys, and both accumulators are empty whenever the loop is     *)
(* about to process the next VM.                                           *)
(***************************************************************************)
C1_LeakFree ==
    /\ pc = "qemu_loop" => SelfDisks(obj) = <<>> /\ SelfNets(obj) = <<>>
    /\ \A i \in 1..Len(BuiltVms) :
         LET cfg == cluster.qemu[i].config
             slots(S) == {j \in 1..Len(cfg) : cfg[j][1] \in S}
         IN  /\ ListField(BuiltVms[i], "disks") = ListField(AloneVm(i, cfg), "disks")
             /\ ListField(BuiltVms[i], "nets") = ListField(AloneVm(i, cfg), "nets")
             /\ Len(ListField(BuiltVms[i], "disks")) <= Cardinality(slots({"ide2", "scsi0"}))
             /\ Len(ListField(BuiltVms[i], "nets")) <= Cardinality(slots({"net0"}))

\* two VMs in a row were processed and each got a disk and a net record
C1_Witness ==
    /\ pc = "qemu_loop"
    /\ Len(frame.vms) >= 2
    /\ \A i \in 1..2 : /\ Len(ListField(frame.vms[i], "disks")) >= 1
                       /\ Len(ListField(frame.vms[i], "nets")) >= 1

(***************************************************************************)
(* C2 (Spec): with type=all and neither vmid nor name, a successful        *)
(* invocation returns every VM and container in scope: those of the given  *)
(* node, or of every node when no node is given.                           *)
(***************************************************************************)
InScope(n) ==
    {cluster.qemu[i].vmid :
        i \in {j \in 1..Len(cluster.qemu) : n.kind = "none" \/ cluster.qemu[j].node = n.str}}
    \cup {cluster.lxc[i].vmid :
        i \in {j \in 1..Len(cluster.lxc) : n.kind = "none" \/ cluster.lxc[j].node = n.str}}

C2_AllReturnsEveryVm ==
    (/\ result.status = "exit"
     /\ params.type = "all"
     /\ params.vmid.kind = "none"
     /\ ~Truthy(params.name))
    => {DictGet(result.vms[i], "vmid").num : i \in 1..Len(result.vms)}
         = InScope(params.node)

(***************************************************************************)
(* C3 (Spec): with type=qemu and an existing QEMU VM requested by vmid or  *)
(* by name, every record of a successful invocation has the requested      *)
(* vmid.                                                                   *)
(***************************************************************************)
C3_OnlyRequestedVm ==
    (/\ result.status = "exit"
     /\ params.type = "qemu"
     /\ Truthy(vmid)
     /\ \E j \in 1..Len(cluster.qemu) : cluster.qemu[j].vmid = vmid.num)
    => \A i \in 1..Len(result.vms) : DictGet(result.vms[i], "vmid") = vmid

(***************************************************************************)
(* C4 (Spec), as stated: a vmid that exists on no node, given without a    *)
(* node (and without a name), ends the invocation with exit_json and an    *)
(* empty list, unless an API call failed.                                  *)
(***************************************************************************)
MissingVmid ==
    /\ Truthy(params.vmid)
    /\ \A i \in 1..Len(cluster.qemu) : cluster.qemu[i].vmid # params.vmid.num
    /\ \A i \in 1..Len(cluster.lxc) : cluster.lxc[i].vmid # params.vmid.num
    /\ params.node.kind = "none"

C4_MissingVmidGivesEmptyList ==
    (/\ MissingVmid
     /\ ~Truthy(params.name)
     /\ pc = "done"
     /\ result.msg # "Failed to retrieve information")
    => result.status = "exit" /\ result.vms = <<>>

(***************************************************************************)
(* C4 (Spec), amended: a non-zero vmid that exists on no node, given       *)
(* without a node, ends the invocation with fail_json and never with       *)
(* exit_json, for every type.                                              *)
(***************************************************************************)
C4_MissingVmidFails ==
    MissingVmid => /\ result.status # "exit"
                   /\ pc = "done" => result.status = "fail"

\* the qemu branch found no node for the vmid and main reported it
C4_Witness ==
    /\ MissingVmid
    /\ params.type = "qemu"
    /\ pc = "done"
    /\ result.msg = "VM with vmid doesn't exist on node"

(***************************************************************************)
(* C5 (SpecDisks), as stated: the three volume examples of the             *)
(* specification give records with storage and path.                       *)
(***************************************************************************)
DiskCall(name, value) == fnOut.done /\ fnIn = [name |-> name, value |-> StrV(value)]

C5_VolumeExamples ==
    /\ DiskCall("ide2", "local:iso/install.iso,media=cdrom")
         => fnOut.r.obj.clsDisks = <<[name |-> "ide2", storage |-> "local",
                                     path |-> "install.iso", media |-> "cdrom"]>>
    /\ DiskCall("scsi0", "local-lvm:vm-100-disk-0,size=30G")
         => fnOut.r.obj.clsDisks = <<[name |-> "scsi0", storage |-> "local-lvm",
                                     path |-> "vm-100-disk-0", size |-> "30G"]>>
    /\ DiskCall("ide3", "none") => fnOut.r.obj.clsDisks = <<[name |-> "ide3"]>>

(***************************************************************************)
(* C5 (SpecDisks), amended: for a string value add_to_disks returns True   *)
(* and appends one record, built from {name: slot key} by the tokens in    *)
(* order: a token holding a colon (not first) followed by a digit, later a *)
(* slash and later a dot inside the text after it sets storage (the text   *)
(* before the first colon) and path (the text between the first slash and  *)
(* the next); any other token with "=" sets the field named before the     *)
(* first "=" to the text up to the next "="; a later token overwrites an   *)
(* earlier field, name included; other tokens add nothing.  The examples   *)
(* give {name: ide2, media: cdrom}, {name: scsi0, size: 30G},              *)
(* {name: ide3}, and "local:102/vm-102-disk-0.raw,size=30G" on scsi0       *)
(* gives storage local and path vm-102-disk-0.raw.                         *)
(***************************************************************************)
IsVolume(t) ==
    \E i \in 2..(Len(t) - 1) :
       /\ CharAt(t, i) = ":" /\ CharAt(t, i + 1) \in Digits
       /\ \E j \in (i + 3)..Len(t) :
            /\ CharAt(t, j) = "/"
            /\ \E k \in (j + 2)..(Len(t) - 1) : CharAt(t, k) = "."

DiskSets(t, f) ==
    IF IsVolume(t) THEN f \in {"storage", "path"}
    ELSE Contains(t, "=") /\ BeforeFirst(t, "=") = f

DiskGives(t, f) ==
    IF IsVolume(t)
    THEN IF f = "storage" THEN BeforeFirst(t, ":") ELSE Second(t, "/")
    ELSE Second(t, "=")

C5_DiskRecord ==
    (fnOut.done /\ fnIn.value.kind = "str") =>
      LET toks == Split(fnIn.value.str, ",")
          list == fnOut.r.obj.clsDisks
          rec == list[1]
          setters(f) == {i \in 1..Len(toks) : DiskSets(toks[i], f)}
          last(f) == CHOOSE i \in setters(f) : \A j \in setters(f) : j <= i
      IN  /\ fnOut.r.ret
          /\ Len(list) = 1
          /\ \A f \in DOMAIN rec : f = "name" \/ setters(f) # {}
          /\ \A i \in 1..Len(toks) : \A f \in {"storage", "path", BeforeFirst(toks[i], "=")} :
               DiskSets(toks[i], f) => f \in DOMAIN rec
          /\ \A f \in DOMAIN rec :
               rec[f] = IF setters(f) = {} THEN fnIn.name
                        ELSE DiskGives(toks[last(f)], f)
          /\ DiskCall("ide2", "local:iso/install.iso,media=cdrom")
               => rec = [name |-> "ide2", media |-> "cdrom"]
          /\ DiskCall("scsi0", "local-lvm:vm-100-disk-0,size=30G")
               => rec = [name |-> "scsi0", size |-> "30G"]
          /\ DiskCall("ide3", "none") => rec = [name |-> "ide3"]
          /\ DiskCall("scsi0", "local:102/vm-102-disk-0.raw,size=30G")
               => rec = [name |-> "scsi0", storage |-> "local",
                         path |-> "vm-102-disk-0.raw", size |-> "30G"]

\* the first example of the specification was parsed
C5_Witness ==
    /\ DiskCall("ide2", "local:iso/install.iso,media=cdrom")
    /\ fnOut.r.ret

(***************************************************************************)
(* C6 (SpecNets), as stated: for every string slot value add_to_nets       *)
(* appends one record, each token with "=" split once at its first "=".    *)
(***************************************************************************)
NetSets(t, f) ==
    /\ Contains(t, "=")
    /\ IF BeforeFirst(t, "=") \in {"e1000", "virtio", "rtl8139", "vmxnet3"}
       THEN f \in {"model", "mac"}
       ELSE f = BeforeFirst(t, "=")

NetGives(t, f) ==
    IF f = "model" /\ BeforeFirst(t, "=") \in {"e1000", "virtio", "rtl8139", "vmxnet3"}
    THEN BeforeFirst(t, "=")
    ELSE AfterFirst(t, "=")

NetRecordAsSpecified ==
    LET toks == Split(fnIn.value.str, ",")
        list == fnOut.r.obj.clsNets
        rec == list[1]
        setters(f) == {i \in 1..Len(toks) : NetSets(toks[i], f)}
        last(f) == CHOOSE i \in setters(f) : \A j \in setters(f) : j <= i
    IN  /\ fnOut.r.ret
        /\ Len(list) = 1
        /\ \A f \in DOMAIN rec : f = "name" \/ setters(f) # {}
        /\ \A i \in 1..Len(toks) : \A f \in {"model", "mac", BeforeFirst(toks[i], "=")} :
             NetSets(toks[i], f) => f \in DOMAIN rec
        /\ \A f \in DOMAIN rec :
             rec[f] = IF setters(f) = {} THEN fnIn.name
                      ELSE NetGives(toks[last(f)], f)
        /\ fnIn = [name |-> "net0", value |-> StrV(NetExample)]
             => rec = [name |-> "net0", model |-> "virtio", mac |-> "28:08:FE:80:DE:A3",
                       bridge |-> "br0", tag |-> "100", firewall |-> "0"]

NamesAreKeys(list, keys) ==
    /\ \A a \in 1..Len(list) : list[a]["name"] \in keys
    /\ \A a \in 1..Len(list) : \A b \in 1..Len(list) :
         a # b => list[a]["name"] # list[b]["name"]

C7_NamesAreSlotKeys ==
    \A i \in 1..Len(BuiltVms) :
      LET keys == {cluster.qemu[i].config[j][1] : j \in 1..Len(cluster.qemu[i].config)}
      IN  /\ NamesAreKeys(ListField(BuiltVms[i], "disks"), keys \cap ClaimedDiskKeys)
          /\ NamesAreKeys(ListField(BuiltVms[i], "nets"),
                          {k \in keys : IsNetKeyWithDigits(k, {1, 2})})

(***************************************************************************)
(* C8 (SpecKeys): get_vm_configs removes a key from the record and gives   *)
(* the VM a disks field exactly when the key is ide0..ide3, scsi0..scsi30, *)
(* virtio0..virtio15, sata0..sata5, efidisk0, tpmstate0 or                 *)
(* unused0..unused255.                                                     *)
(***************************************************************************)
C8_DiskSlotKeys ==
    fnOut.done =>
      ((~DictHas(fnOut.r.vm, fnIn.key) /\ DictHas(fnOut.r.vm, "disks"))
         <=> fnIn.key \in ClaimedDiskKeys)

(***************************************************************************)
(* C9 (SpecKeys): get_vm_configs treats a key as a network slot only when  *)
(* it is net followed by one or two digits; the key net, and net followed  *)
(* by three or more digits, stay in the record with their value and the VM *)
(* gets no nets field.                                                     *)
(***************************************************************************)
C9_NetSlotKeys ==
    fnOut.done =>
      /\ (~DictHas(fnOut.r.vm, fnIn.key) /\ DictHas(fnOut.r.vm, "nets"))
           => IsNetKeyWithDigits(fnIn.key, {1, 2})
      /\ (fnIn.key = "net" \/ IsNetKeyWithDigits(fnIn.key, 3..(MaxSuffixLen + 3)))
           => /\ DictHas(fnOut.r.vm, fnIn.key)
              /\ DictGet(fnOut.r.vm, fnIn.key) = fnIn.value
              /\ ~DictHas(fnOut.r.vm, "nets")

(***************************************************************************)
(* C10 (SpecCfg): a slot value that cannot be parsed (a value that is not  *)
(* a string, or a net value with a token of two or more "=") makes         *)
(* add_to_disks/add_to_nets return False and leave the object as it was;   *)
(* the VM still gets its record, without the slot key, and its disks and   *)
(* nets records are those of the configuration without the failing slots.  *)
(***************************************************************************)
ParseFails(key, val) ==
    \/ val.kind # "str"
    \/ /\ key \in {"net0"}
       /\ \E t \in {Split(val.str, ",")[i] : i \in 1..Len(Split(val.str, ","))} :
            CountChar(t, "=") >= 2

FailingSlots(cfg) ==
    {j \in 1..Len(cfg) : /\ cfg[j][1] \in {"ide2", "scsi0", "net0"}
                         /\ ParseFails(cfg[j][1], cfg[j][2])}

C10_ParseFailureIsLocal ==
    /\ \A i \in 1..Len(cluster.qemu) :
         LET cfg == cluster.qemu[i].config
         IN  \A j \in FailingSlots(cfg) :
               IF cfg[j][1] = "net0"
               THEN AddToNets(obj, cfg[j][1], cfg[j][2]) = [obj |-> obj, ret |-> FALSE]
               ELSE AddToDisks(obj, cfg[j][1], cfg[j][2]) = [obj |-> obj, ret |-> FALSE]
    /\ pc = "finish" => Len(vms) = Len(cluster.qemu)
    /\ \A i \in 1..Len(BuiltVms) :
         LET cfg == cluster.qemu[i].config
             bad == {cfg[j][1] : j \in FailingSlots(cfg)}
             clean == AloneVm(i, SelectSeq(cfg, LAMBDA e : e[1] \notin bad))
         IN  /\ \A k \in bad : ~DictHas(BuiltVms[i], k)
             /\ ListField(BuiltVms[i], "disks") = ListField(clean, "disks")
             /\ ListField(BuiltVms[i], "nets") = ListField(clean, "nets")

\* a VM with a failing slot and a parsed one was returned by exit_json
C10_Witness ==
    /\ result.status = "exit"
    /\ \E i \in 1..Len(result.vms) :
         /\ FailingSlots(cluster.qemu[i].config) # {}
         /\ Len(ListField(result.vms[i], "disks")) >= 1
====
